---- MODULE Spec2Model ----
(***************************************************************************)
(* firstaide: the build orchestrator (cmds/build.rs), the hook decision    *)
(* engine and script emitter (cmds/hook.rs) and the exit-status mapping of *)
(* main.rs, over a file system holding the watched files, the cache        *)
(* directory and the cache file.                                           *)
(***************************************************************************)
EXTENDS Integers, Sequences, FiniteSets, TLC

(* ------------------------------ bounds --------------------------------- *)

\* Distinct contents a watched file can take.
MaxContent == 2

Contents == 1..MaxContent

(* --------------------------- byte strings ------------------------------ *)
\* A byte string is a sequence of tokens; the token Q is a single quote, the
\* tokens "DIRENV_" and "SSH_" are the bookkeeping prefixes.

Q == "'"

V1 == <<"1">>
V2 == <<"2", Q>>
VW == <<"w">>

K_BAR == <<"BAR">>
K_DIRENV_DIFF == <<"DIRENV_", "DIFF">>
K_DIRENV_WATCHES == <<"DIRENV_", "WATCHES">>
K_FOO == <<"FOO">>
K_SSH == <<"SSH_", "AUTH_SOCK">>

\* Keys in byte order.
KeyOrder == <<K_BAR, K_DIRENV_DIFF, K_DIRENV_WATCHES, K_FOO, K_SSH>>

NoVal == <<>>

\* bash::escape: a single-quoted shell literal, every quote inside it
\* becoming '\''.
RECURSIVE EscBody(_)
EscBody(s) ==
  IF s = <<>> THEN <<>>
  ELSE (IF Head(s) = Q THEN <<Q, "\\", Q, Q>> ELSE <<Head(s)>>) \o EscBody(Tail(s))

escape(s) == <<Q>> \o EscBody(s) \o <<Q>>

(* --------------------- environment snapshots, diffs -------------------- *)
\* A snapshot is a function from the keys it holds to their values.

Added(k, vb) == [tag |-> "Added", k |-> k, va |-> NoVal, vb |-> vb]
Changed(k, va, vb) == [tag |-> "Changed", k |-> k, va |-> va, vb |-> vb]
Removed(k, va) == [tag |-> "Removed", k |-> k, va |-> va, vb |-> NoVal]

\* env::diff over the keys from position i of KeyOrder on.
RECURSIVE DiffFrom(_, _, _)
DiffFrom(before, after, i) ==
  IF i > Len(KeyOrder) THEN <<>>
  ELSE LET k == KeyOrder[i]
           rest == DiffFrom(before, after, i + 1)
       IN IF k \in DOMAIN before /\ k \in DOMAIN after
            THEN IF before[k] = after[k] THEN rest
                 ELSE <<Changed(k, before[k], after[k])>> \o rest
          ELSE IF k \in DOMAIN after THEN <<Added(k, after[k])>> \o rest
          ELSE IF k \in DOMAIN before THEN <<Removed(k, before[k])>> \o rest
          ELSE rest

diff(before, after) == DiffFrom(before, after, 1)

StartsWith(s, prefix) ==
  /\ Len(prefix) <= Len(s)
  /\ SubSeq(s, 1, Len(prefix)) = prefix

\* Diff::exclude_by_prefix
exclude_by_prefix(d, prefix) == SelectSeq(d, LAMBDA c : ~StartsWith(c.k, prefix))

P_DIRENV == <<"DIRENV_">>
P_SSH == <<"SSH_">>

(* ------------------------------ checksums ------------------------------ *)

PathA == <<"a">>
PathB == <<"b">>
CacheFilePath == <<".cache", "/", "cache">>

\* config.watch_files()
watch_files == <<PathA, PathB>>

Paths == {watch_files[i] : i \in DOMAIN watch_files}

\* The content fingerprint: distinct contents have distinct fingerprints.
Fingerprint(c) == (c * 7 + 3) % 11

\* A file is the set of its contents: empty when the file does not exist.
Readable(fs) == \A p \in Paths : fs[p] # {}

ContentOf(fs, p) == CHOOSE c \in fs[p] : TRUE

\* sums::Checksums::from, defined when every watched file can be read.
ChecksumsFrom(fs) ==
  [i \in DOMAIN watch_files |->
     [path |-> watch_files[i], sum |-> Fingerprint(ContentOf(fs, watch_files[i]))]]

\* sums::equal: the same paths mapped to the same fingerprints.
sums_equal(a, b) ==
  {a[i] : i \in DOMAIN a} = {b[i] : i \in DOMAIN b}

(* ------------------------- the inputs of a run -------------------------- *)
\* Snapshots the loader subprocess can report and the shell can hold.

O1 == (K_FOO :> V1) @@ (K_SSH :> V1) @@ (K_DIRENV_WATCHES :> VW)
O2 == (K_FOO :> V1) @@ (K_BAR :> V1)
I1 == (K_FOO :> V2) @@ (K_BAR :> V1) @@ (K_DIRENV_DIFF :> V1) @@ (K_DIRENV_WATCHES :> VW)
I2 == (K_FOO :> V1)
L1 == (K_FOO :> V2) @@ (K_DIRENV_DIFF :> V1) @@ (K_SSH :> V1)

OutsideSnaps == {O1, O2}
InsideSnaps == {I1, I2}
LiveSnaps == {L1, O2}

EmptyEnv == [k \in {} |-> NoVal]

\* Versions `direnv version` can print, as <<major, minor, patch>>.
Versions == {<<2, 20, 0>>, <<2, 20, 1>>, <<2, 21, 3>>, <<1, 99, 9>>}

VersionLess(a, b) ==
  \/ a[1] < b[1]
  \/ a[1] = b[1] /\ a[2] < b[2]
  \/ a[1] = b[1] /\ a[2] = b[2] /\ a[3] < b[3]

version_min == <<2, 20, 1>>

(* -------------------------------- state -------------------------------- *)

VARIABLES
  files,      \* watched path -> the set holding its content ({} when deleted)
  cacheDir,   \* whether config.cache_dir exists
  cacheFile,  \* the file at config.cache_file()
  written,    \* contents of the watched files when the checksums of the entry in
              \* the cache file were calculated
  sumsOfSeen, \* whether the checksums of that entry are of the files as the inside
              \* capture of its build saw them
  last,       \* the completed hook run remembered for comparison with a later one
  bld,        \* the build run of each builder process
  hk          \* the hook run

vars == <<files, cacheDir, cacheFile, written, sumsOfSeen, last, bld, hk>>

Builders == {1, 2}

NoSums == <<>>
NoDiff == <<>>

AbsentCache == [state |-> "absent", diff |-> NoDiff, sums |-> NoSums]
CorruptCache == [state |-> "corrupt", diff |-> NoDiff, sums |-> NoSums]

\* cache::Cache { diff, sums } as cache.save leaves it on disk.
Cache(d, s) == [state |-> "valid", diff |-> d, sums |-> s]

\* cache::Cache::load fails on a missing or undecodable file.
LoadOk(file) == file.state = "valid"

\* A failed run exiting with the status of a usage error.
ExitOfErr_usage == {1}

\* main: Err(err) => process::exit(2), Ok(code) => process::exit(code).
ExitOfErr == {2}
ExitOfOk(code) == {code}

AllFiles == [Paths -> {{}} \cup {{c} : c \in Contents}]

\* No record of the watched files' contents.
NoFiles == [p \in Paths |-> {}]

BuildIdle ==
  [pc |-> "idle", version |-> <<>>, env_outside |-> EmptyEnv, env_inside |-> EmptyEnv,
   diff |-> NoDiff, sums |-> NoSums, scratch |-> FALSE, seen |-> NoFiles,
   summed |-> NoFiles, fresh |-> FALSE,
   out |-> <<>>, stderr |-> <<>>,
   exit |-> {}, err |-> "none", at |-> "none", start |-> AbsentCache]

HookIdle ==
  [pc |-> "idle", out |-> <<>>, stderr |-> <<>>, captured |-> FALSE,
   env |-> EmptyEnv, env_outside |-> EmptyEnv, cache |-> AbsentCache,
   status |-> "none", scratch |-> FALSE, exit |-> {}, err |-> "none", at |-> "none"]

\* No hook run remembered.
NoLast ==
  [set |-> FALSE, env |-> EmptyEnv, env_outside |-> EmptyEnv, cache |-> AbsentCache,
   files |-> NoFiles, out |-> <<>>]

Init ==
  /\ files \in {f \in AllFiles : Readable(f)}
  /\ cacheDir \in BOOLEAN
  /\ cacheFile \in (IF cacheDir THEN {AbsentCache, CorruptCache} ELSE {AbsentCache})
  /\ written = NoFiles
  /\ sumsOfSeen = FALSE
  /\ last = NoLast
  /\ bld = [p \in Builders |-> BuildIdle]
  /\ hk = HookIdle

(* ------------------------- the watched files --------------------------- *)

\* An editor rewrites a watched file.
EditFile(p, c) ==
  /\ files[p] # {c}
  /\ files' = [files EXCEPT ![p] = {c}]
  /\ UNCHANGED <<cacheDir, cacheFile, written, sumsOfSeen, bld, hk, last>>

\* A watched file is deleted.
DeleteFile(p) ==
  /\ files[p] # {}
  /\ files' = [files EXCEPT ![p] = {}]
  /\ UNCHANGED <<cacheDir, cacheFile, written, sumsOfSeen, bld, hk, last>>

(* ------------------------------ logging -------------------------------- *)
\* init chains the logger to standard output at level Debug; a line of the
\* logger is told from the script by its kind.

LogLine(err) == [kind |-> "log", title |-> err, body |-> <<>>]
Info(text) == [kind |-> "log", title |-> text, body |-> <<>>]
Debug(text) == [kind |-> "log", title |-> text, body |-> <<>>]

InfoAllow == Info("Allow direnv in {:?}.")
InfoMkdir == Info("Create cache dir at {:?}.")
InfoOutside == Info("Capture outside environment.")
InfoInside == Info("Capture inside environment (may involve a full build).")
InfoDiff == Info("Calculate environment diff.")
InfoSums == Info("Calculate file checksums.")
InfoSave == Info("Write out cache.")
DebugCmd == Debug("{:?} dump_cmd")

\* main: init fails, eprintln! of the error, process::exit(2).
InitErr(idle) ==
  [idle EXCEPT !.pc = "exited", !.exit = {2}, !.err = "SetLogger", !.at = "init",
               !.stderr = <<"SetLoggerError">>]

(* ------------------------------- build --------------------------------- *)

\* The lines a step logs.
Logged(b, lines) == [b EXCEPT !.out = @ \o lines]

\* BuildErr leaving the temporary directory behind.
BuildErr_leaksScratch(b, at, err) ==
  [BuildIdle EXCEPT !.pc = "exited", !.exit = ExitOfErr, !.err = err, !.at = at,
                    !.start = b.start, !.out = Append(b.out, LogLine(err)),
                    !.scratch = b.scratch]

\* build returns Err(err) from step `at`: its locals, the temporary directory
\* among them, are dropped, main logs the error and exits with status 2.
BuildErr(b, at, err) ==
  [BuildIdle EXCEPT !.pc = "exited", !.exit = ExitOfErr, !.err = err, !.at = at,
                    !.start = b.start, !.out = Append(b.out, LogLine(err))]

BuildGoto(p, b) == bld' = [bld EXCEPT ![p] = b]

\* main: init; run: load the configuration.
BuildStart(p) ==
  /\ bld[p].pc = "idle"
  /\ \E init \in BOOLEAN, ok \in BOOLEAN :
       BuildGoto(p, IF ~init THEN InitErr([bld[p] EXCEPT !.start = cacheFile])
                    ELSE IF ok THEN [bld[p] EXCEPT !.pc = "version", !.start = cacheFile]
                    ELSE BuildErr([bld[p] EXCEPT !.start = cacheFile], "config", "Config"))
  /\ UNCHANGED <<files, cacheDir, cacheFile, written, sumsOfSeen, hk, last>>

\* check_direnv_version on the output of `direnv version`.
check_direnv_version(output) ==
  IF output \notin Versions THEN "error"
  ELSE IF VersionLess(output, version_min) THEN "too old"
  ELSE "ok"

\* BuildVersion going on with a direnv that is too old.
BuildVersion_ignoresTooOld(p) ==
  /\ bld[p].pc = "version"
  /\ \E output \in Versions \cup {<<>>} :
       BuildGoto(p, IF check_direnv_version(output) \in {"ok", "too old"}
                    THEN [bld[p] EXCEPT !.pc = "allow", !.version = output]
                    ELSE BuildErr(bld[p], "version", "DirEnv"))
  /\ UNCHANGED <<files, cacheDir, cacheFile, written, sumsOfSeen, hk, last>>

\* 0. Check direnv is new enough.
BuildVersion(p) ==
  /\ bld[p].pc = "version"
  /\ \E output \in Versions \cup {<<>>} :
       BuildGoto(p, IF check_direnv_version(output) = "ok"
                    THEN [bld[p] EXCEPT !.pc = "allow", !.version = output]
                    ELSE BuildErr(bld[p], "version", "DirEnv"))
  /\ UNCHANGED <<files, cacheDir, cacheFile, written, sumsOfSeen, hk, last>>

\* 1. Allow direnv.
BuildAllow(p) ==
  /\ bld[p].pc = "allow"
  /\ \E status \in {"spawn failed", "failure", "success"} :
       LET b == Logged(bld[p], <<InfoAllow>>)
       IN BuildGoto(p, CASE status = "success" -> [b EXCEPT !.pc = "mkdir"]
                         [] status = "failure" -> BuildErr(b, "allow", "DirEnv")
                         [] OTHER -> BuildErr(b, "allow", "Io"))
  /\ UNCHANGED <<files, cacheDir, cacheFile, written, sumsOfSeen, hk, last>>

\* 2. Create output directory.
BuildMkdir(p) ==
  /\ bld[p].pc = "mkdir"
  /\ \E ok \in BOOLEAN :
       LET b == Logged(bld[p], <<InfoMkdir>>)
       IN IF ok \/ cacheDir
          THEN /\ cacheDir' = TRUE
               /\ BuildGoto(p, [b EXCEPT !.pc = "tempdir"])
          ELSE /\ cacheDir' = cacheDir
               /\ BuildGoto(p, BuildErr(b, "mkdir", "Io"))
  /\ UNCHANGED <<files, cacheFile, written, sumsOfSeen, hk, last>>

\* The temporary directory inside the cache directory.
BuildTempDir(p) ==
  /\ bld[p].pc = "tempdir"
  /\ \E ok \in BOOLEAN :
       BuildGoto(p, IF ok /\ cacheDir
                    THEN [bld[p] EXCEPT !.pc = "outside", !.scratch = TRUE]
                    ELSE BuildErr(bld[p], "tempdir", "Io"))
  /\ UNCHANGED <<files, cacheDir, cacheFile, written, sumsOfSeen, hk, last>>

\* What a capture subprocess and the read of its dump can come to.
CaptureOutcomes == {"spawn failed", "exit nonzero", "read failed", "undecodable", "ok"}

\* 3a. Capture outside environment.
BuildOutside(p) ==
  /\ bld[p].pc = "outside"
  /\ \E outcome \in CaptureOutcomes, env \in OutsideSnaps :
       LET b == Logged(bld[p], <<InfoOutside, DebugCmd>>)
       IN BuildGoto(p, CASE outcome = "ok" ->
                              [b EXCEPT !.pc = "inside", !.env_outside = env]
                         [] outcome = "exit nonzero" ->
                              BuildErr(b, "outside", "EnvOutsideCapture")
                         [] outcome = "undecodable" ->
                              BuildErr(b, "outside", "EnvOutsideDecode")
                         [] OTHER -> BuildErr(b, "outside", "Io"))
  /\ UNCHANGED <<files, cacheDir, cacheFile, written, sumsOfSeen, hk, last>>

\* 3b. Capture inside environment; then the temporary directory is dropped
\* and (4.) the environment diff is calculated. `seen` keeps the watched
\* files as they were when the inside environment was captured, until the
\* checksums are calculated; `fresh` then tells whether they were still so.
\* `summed` keeps the files as the checksums were calculated from them.
BuildInside(p) ==
  /\ bld[p].pc = "inside"
  /\ \E outcome \in CaptureOutcomes, env \in InsideSnaps :
       LET b == Logged(bld[p], <<InfoInside, DebugCmd>>)
       IN BuildGoto(p, CASE outcome = "ok" ->
                              [b EXCEPT !.pc = "sums", !.env_inside = env,
                                        !.scratch = FALSE, !.seen = files,
                                        !.out = Append(@, InfoDiff),
                                        !.diff = diff(b.env_outside, env)]
                         [] outcome = "exit nonzero" ->
                              BuildErr(b, "inside", "EnvInsideCapture")
                         [] outcome = "undecodable" ->
                              BuildErr(b, "inside", "EnvInsideDecode")
                         [] OTHER -> BuildErr(b, "inside", "Io"))
  /\ UNCHANGED <<files, cacheDir, cacheFile, written, sumsOfSeen, hk, last>>

\* BuildSums writing the cache file before the checksums are there.
BuildSums_writesFirst(p) ==
  /\ bld[p].pc = "sums"
  /\ cacheFile' = Cache(bld[p].diff, NoSums)
  /\ \E cfg \in BOOLEAN :
       LET b == Logged(bld[p], <<InfoSums>>)
       IN BuildGoto(p, IF ~cfg THEN BuildErr(b, "sums", "Config")
                       ELSE IF ~Readable(files) THEN BuildErr(b, "sums", "Io")
                       ELSE [b EXCEPT !.pc = "save", !.sums = ChecksumsFrom(files),
                                      !.summed = files, !.fresh = (b.seen = files),
                                      !.seen = NoFiles])
  /\ UNCHANGED <<files, cacheDir, written, sumsOfSeen, hk, last>>

\* 5. Calculate checksums.
BuildSums(p) ==
  /\ bld[p].pc = "sums"
  /\ \E cfg \in BOOLEAN :
       LET b == Logged(bld[p], <<InfoSums>>)
       IN BuildGoto(p, IF ~cfg THEN BuildErr(b, "sums", "Config")
                       ELSE IF ~Readable(files) THEN BuildErr(b, "sums", "Io")
                       ELSE [b EXCEPT !.pc = "save", !.sums = ChecksumsFrom(files),
                                      !.summed = files, !.fresh = (b.seen = files),
                                      !.seen = NoFiles])
  /\ UNCHANGED <<files, cacheDir, cacheFile, written, sumsOfSeen, hk, last>>

\* cache.save writing in place, part by part: the diff of the old entry is
\* still there when the new checksums are.
cache_save_inPlace(old, entry) ==
  IF LoadOk(old) THEN [entry EXCEPT !.diff = old.diff] ELSE entry

\* cache.save: the entry is written to a temporary file that is renamed into
\* place, so the file goes from what it held to the complete entry.
cache_save(old, entry) == entry

\* BuildSave keeping an entry that is already there.
BuildSave_keepsOld(p) ==
  /\ bld[p].pc = "save"
  /\ LET b == Logged(bld[p], <<InfoSave>>)
     IN \/ /\ cacheDir
           /\ cacheFile' = IF LoadOk(cacheFile) THEN cacheFile
                           ELSE Cache(bld[p].diff, bld[p].sums)
           /\ written' = IF LoadOk(cacheFile) THEN written ELSE bld[p].summed
           /\ sumsOfSeen' = IF LoadOk(cacheFile) THEN sumsOfSeen ELSE bld[p].fresh
           /\ BuildGoto(p, [b EXCEPT !.pc = "exited", !.exit = ExitOfOk(0),
                                      !.summed = NoFiles, !.fresh = FALSE])
        \/ /\ cacheFile' \in {cacheFile} \cup (IF cacheDir THEN {CorruptCache} ELSE {})
           /\ written' = written
           /\ sumsOfSeen' = sumsOfSeen
           /\ BuildGoto(p, BuildErr(b, "save", "Cache"))
  /\ UNCHANGED <<files, cacheDir, hk, last>>

\* 6. Write out cache; done. A save that fails leaves the file as it was or
\* undecodable.
BuildSave(p) ==
  /\ bld[p].pc = "save"
  /\ LET b == Logged(bld[p], <<InfoSave>>)
     IN \/ /\ cacheDir
           /\ cacheFile' = cache_save(cacheFile, Cache(bld[p].diff, bld[p].sums))
           /\ written' = bld[p].summed
           /\ sumsOfSeen' = bld[p].fresh
           /\ BuildGoto(p, [b EXCEPT !.pc = "exited", !.exit = ExitOfOk(0),
                                      !.summed = NoFiles, !.fresh = FALSE])
        \/ /\ cacheFile' \in {cacheFile} \cup (IF cacheDir THEN {CorruptCache} ELSE {})
           /\ written' = written
           /\ sumsOfSeen' = sumsOfSeen
           /\ BuildGoto(p, BuildErr(b, "save", "Cache"))
  /\ UNCHANGED <<files, cacheDir, hk, last>>

\* The process is gone; the next build starts afresh.
BuildReset(p) ==
  /\ bld[p].pc = "exited"
  /\ BuildGoto(p, BuildIdle)
  /\ UNCHANGED <<files, cacheDir, cacheFile, written, sumsOfSeen, hk, last>>

(* -------------------------------- hook --------------------------------- *)
\* Standard output is the sequence of the items written to it: the lines
\* written by writeln!, the chunks, and the lines of the logger.

Line(text) == [kind |-> "line", title |-> text, body |-> <<>>]
OpenLine == Line("{ # Start.")
BlankLine == Line("")
CloseLine == Line("} # End.")

\* chunk: the title as comment lines, the content, a blank line.
chunk(title, content) == [kind |-> "chunk", title |-> title, body |-> content]

\* watch: watch_file <escaped filename>
watch(filename) == [op |-> "watch_file", k |-> escape(filename), v |-> NoVal]

\* include_bytes! of a script shipped with the tool, with its message if any.
Include(name, message) == [op |-> "include", k |-> <<name>>, v |-> message]

\* Directive exporting the old value of a changed variable.
Directive_exportsOld(change) ==
  IF change.tag = "Removed"
  THEN [op |-> "unset", k |-> escape(change.k), v |-> NoVal]
  ELSE [op |-> "export", k |-> escape(change.k),
        v |-> escape(IF change.tag = "Changed" THEN change.va ELSE change.vb)]

Directive(change) ==
  IF change.tag = "Removed"
  THEN [op |-> "unset", k |-> escape(change.k), v |-> NoVal]
  ELSE [op |-> "export", k |-> escape(change.k), v |-> escape(change.vb)]

\* env_diff_dump: DIRENV_ and SSH_ vars are filtered out, then one line a change.
env_diff_dump(d) ==
  LET kept == exclude_by_prefix(exclude_by_prefix(d, P_DIRENV), P_SSH)
  IN [i \in DOMAIN kept |-> Directive(kept[i])]

\* The parent diff: live against outside without the DIRENV_ keys, with
\* DIRENV_WATCHES of the outside environment pushed back.
ParentDiff(env, env_outside) ==
  LET d == exclude_by_prefix(diff(env, env_outside), P_DIRENV)
  IN IF K_DIRENV_WATCHES \in DOMAIN env_outside
     THEN Append(d, Added(K_DIRENV_WATCHES, env_outside[K_DIRENV_WATCHES]))
     ELSE d

\* EnvironmentStatus::display
display(status) ==
  CASE status = "Okay" -> "status: Okay"
    [] status = "Stale" -> "status: Stale"
    [] OTHER -> "status: Unknown"

getting_started == <<"aide", Q, "s up">>

ParentTitle == "Parent environment follows:"
CachedTitle == "Cached environment follows:"
WatchDepsTitle == "Watch dependencies."
WatchCacheTitle == "Watch the cache file."

ActiveChunk ==
  chunk(display("Okay"), <<Include("hook/active.sh", escape(getting_started))>>)
StaleChunk == chunk(display("Stale"), <<Include("hook/stale.sh", NoVal)>>)
InactiveChunk == chunk(display("Unknown"), <<Include("hook/inactive.sh", NoVal)>>)

\* HookErr closing the block on the way out.
HookErr_closesBlock(h, at, err) ==
  [HookIdle EXCEPT !.pc = "exited", !.exit = ExitOfErr, !.err = err, !.at = at,
                   !.status = h.status, !.captured = h.captured,
                   !.out = h.out \o <<CloseLine, LogLine(err)>>]

\* run returns Err(err) from step `at`: its locals, the temporary directory
\* among them, are dropped, main logs the error and exits with status 2.
HookErr(h, at, err) ==
  [HookIdle EXCEPT !.pc = "exited", !.exit = ExitOfErr, !.err = err, !.at = at,
                   !.status = h.status, !.captured = h.captured,
                   !.out = Append(h.out, LogLine(err))]

\* HookWrite going on after a write that failed.
HookWrite_ignoresError(h, next, items, n) ==
  [next EXCEPT !.out = h.out \o SubSeq(items, 1, n)]

\* The writes of one step: the first n of them succeed; the step goes on as
\* `next` when all did and returns the input/output error otherwise.
HookWrite(h, next, items, n) ==
  IF n = Len(items)
  THEN [next EXCEPT !.out = h.out \o items]
  ELSE HookErr([h EXCEPT !.out = @ \o SubSeq(items, 1, n)], "write", "Io")

\* main: init; run: load the configuration, open the block.
HookStart ==
  /\ hk.pc = "idle"
  /\ \E init \in BOOLEAN, ok \in BOOLEAN, n \in 0..2 :
       hk' = IF ~init THEN InitErr(hk)
             ELSE IF ~ok THEN HookErr(hk, "config", "Config")
             ELSE HookWrite(hk, [hk EXCEPT !.pc = "tempdir"], <<OpenLine, BlankLine>>, n)
  /\ UNCHANGED <<files, cacheDir, cacheFile, written, sumsOfSeen, bld, last>>

\* The temporary directory inside the cache directory.
HookTempDir ==
  /\ hk.pc = "tempdir"
  /\ \E ok \in BOOLEAN :
       hk' = IF ok /\ cacheDir
             THEN [hk EXCEPT !.pc = "outside", !.scratch = TRUE]
             ELSE HookErr(hk, "tempdir", "Io")
  /\ UNCHANGED <<files, cacheDir, cacheFile, written, sumsOfSeen, bld, last>>

\* Capture the outside environment; then the parent environment chunk and
\* the helpers chunk.
HookOutside ==
  /\ hk.pc = "outside"
  /\ \E outcome \in CaptureOutcomes, env_outside \in OutsideSnaps,
        env \in LiveSnaps, n \in 0..2 :
       hk' = CASE outcome = "ok" ->
                    HookWrite([hk EXCEPT !.captured = TRUE],
                              [hk EXCEPT !.pc = "load", !.captured = TRUE,
                                         !.env = env, !.env_outside = env_outside],
                              <<chunk(ParentTitle,
                                      env_diff_dump(ParentDiff(env, env_outside))),
                                chunk("Helpers.", <<Include("hook/helpers.sh", NoVal)>>)>>,
                              n)
               [] outcome = "exit nonzero" -> HookErr(hk, "outside", "EnvOutsideCapture")
               [] outcome = "undecodable" -> HookErr(hk, "outside", "EnvOutsideDecode")
               [] OTHER -> HookErr(hk, "outside", "Io")
  /\ UNCHANGED <<files, cacheDir, cacheFile, written, sumsOfSeen, bld, last>>

\* HookLoad clearing away a cache file that does not decode.
HookLoad_dropsCorrupt ==
  /\ hk.pc = "load"
  /\ cacheFile' = IF cacheFile = CorruptCache THEN AbsentCache ELSE cacheFile
  /\ \E n \in 0..1 :
       hk' = IF LoadOk(cacheFile)
             THEN [hk EXCEPT !.pc = "sums", !.cache = cacheFile]
             ELSE HookWrite([hk EXCEPT !.cache = cacheFile, !.status = "Unknown"],
                            [hk EXCEPT !.pc = "finish", !.cache = cacheFile,
                                       !.status = "Unknown"],
                            <<InactiveChunk>>, n)
  /\ UNCHANGED <<files, cacheDir, written, sumsOfSeen, bld, last>>

\* cache::Cache::load; on Err the inactive chunk.
HookLoad ==
  /\ hk.pc = "load"
  /\ \E n \in 0..1 :
       hk' = IF LoadOk(cacheFile)
             THEN [hk EXCEPT !.pc = "sums", !.cache = cacheFile]
             ELSE HookWrite([hk EXCEPT !.cache = cacheFile, !.status = "Unknown"],
                            [hk EXCEPT !.pc = "finish", !.cache = cacheFile,
                                       !.status = "Unknown"],
                            <<InactiveChunk>>, n)
  /\ UNCHANGED <<files, cacheDir, cacheFile, written, sumsOfSeen, bld, last>>

\* LoadedItems applying the cached diff only when it is not stale.
LoadedItems_staleSkipsDiff(status, cache) ==
  <<IF status = "Okay" THEN ActiveChunk ELSE StaleChunk,
    chunk(CachedTitle, IF status = "Okay" THEN env_diff_dump(cache.diff) ELSE <<>>),
    chunk(WatchDepsTitle, [i \in DOMAIN cache.sums |-> watch(cache.sums[i].path)])>>

\* The items of the Ok(cache) branch.
LoadedItems(status, cache) ==
  <<IF status = "Okay" THEN ActiveChunk ELSE StaleChunk,
    chunk(CachedTitle, env_diff_dump(cache.diff)),
    chunk(WatchDepsTitle, [i \in DOMAIN cache.sums |-> watch(cache.sums[i].path)])>>

\* Classify with the two branches the wrong way round.
Classify_swapped(sums_now, cache) ==
  IF sums_equal(sums_now, cache.sums) THEN "Stale" ELSE "Okay"

\* Classify trusting any cache that loads.
Classify_alwaysOkay(sums_now, cache) == "Okay"

Classify(sums_now, cache) ==
  IF sums_equal(sums_now, cache.sums) THEN "Okay" ELSE "Stale"

\* HookSums reading the cache file a second time for the cached environment.
HookSums_rereads ==
  /\ hk.pc = "sums"
  /\ \E cfg \in BOOLEAN, n \in 0..3 :
       hk' = IF ~cfg THEN HookErr(hk, "sums", "Config")
             ELSE IF ~Readable(files) THEN HookErr(hk, "sums", "Io")
             ELSE LET sums_now == ChecksumsFrom(files)
                      status == Classify(sums_now, hk.cache)
                      h == [hk EXCEPT !.status = status]
                  IN HookWrite(h, [h EXCEPT !.pc = "finish"],
                               LoadedItems(status, IF LoadOk(cacheFile) THEN cacheFile
                                                   ELSE hk.cache), n)
  /\ UNCHANGED <<files, cacheDir, cacheFile, written, sumsOfSeen, bld, last>>

\* Ok(cache): the checksums now, the status chunk, the cached environment,
\* the watch directives of the cached checksums.
HookSums ==
  /\ hk.pc = "sums"
  /\ \E cfg \in BOOLEAN, n \in 0..3 :
       hk' = IF ~cfg THEN HookErr(hk, "sums", "Config")
             ELSE IF ~Readable(files) THEN HookErr(hk, "sums", "Io")
             ELSE LET sums_now == ChecksumsFrom(files)
                      status == Classify(sums_now, hk.cache)
                      h == [hk EXCEPT !.status = status]
                  IN HookWrite(h, [h EXCEPT !.pc = "finish"],
                               LoadedItems(status, hk.cache), n)
  /\ UNCHANGED <<files, cacheDir, cacheFile, written, sumsOfSeen, bld, last>>

\* HookFinish watching the cache file only when there is one.
HookFinish_watchesLoadedOnly ==
  /\ hk.pc = "finish"
  /\ \E n \in 0..2 :
       hk' = HookWrite(hk,
                       [hk EXCEPT !.pc = "exited", !.exit = ExitOfOk(0),
                                  !.scratch = FALSE],
                       <<chunk(WatchCacheTitle,
                               IF LoadOk(hk.cache) THEN <<watch(CacheFilePath)>> ELSE <<>>),
                         CloseLine>>,
                       n)
  /\ UNCHANGED <<files, cacheDir, cacheFile, written, sumsOfSeen, bld, last>>

\* HookFinish closing the block before the last chunk.
HookFinish_closesFirst ==
  /\ hk.pc = "finish"
  /\ \E n \in 0..2 :
       hk' = HookWrite(hk,
                       [hk EXCEPT !.pc = "exited", !.exit = ExitOfOk(0),
                                  !.scratch = FALSE],
                       <<CloseLine, chunk(WatchCacheTitle, <<watch(CacheFilePath)>>)>>,
                       n)
  /\ UNCHANGED <<files, cacheDir, cacheFile, written, sumsOfSeen, bld, last>>

\* Watch the cache file, close the block, Ok(0).
HookFinish ==
  /\ hk.pc = "finish"
  /\ \E n \in 0..2 :
       hk' = HookWrite(hk,
                       [hk EXCEPT !.pc = "exited", !.exit = ExitOfOk(0),
                                  !.scratch = FALSE],
                       <<chunk(WatchCacheTitle, <<watch(CacheFilePath)>>), CloseLine>>,
                       n)
  /\ UNCHANGED <<files, cacheDir, cacheFile, written, sumsOfSeen, bld, last>>

\* The process is gone; the next hook starts afresh.
HookReset ==
  /\ hk.pc = "exited"
  /\ hk' = HookIdle
  /\ UNCHANGED <<files, cacheDir, cacheFile, written, sumsOfSeen, bld, last>>

\* The process is gone; what a completed run read and wrote is remembered.
HookRemember ==
  /\ hk.pc = "exited"
  /\ hk' = HookIdle
  /\ last' = IF hk.exit = {0}
             THEN [set |-> TRUE, env |-> hk.env, env_outside |-> hk.env_outside,
                   cache |-> hk.cache, files |-> files, out |-> hk.out]
             ELSE last
  /\ UNCHANGED <<files, cacheDir, cacheFile, written, sumsOfSeen, bld>>

(* --------------------------- specifications ---------------------------- *)

BuildStep(p) ==
  \/ BuildVersion(p)
  \/ BuildAllow(p)
  \/ BuildMkdir(p)
  \/ BuildTempDir(p)
  \/ BuildOutside(p)
  \/ BuildInside(p)
  \/ BuildSums(p)
  \/ BuildSave(p)
  \/ BuildReset(p)

HookStep ==
  \/ HookTempDir
  \/ HookOutside
  \/ HookLoad
  \/ HookSums
  \/ HookFinish
  \/ HookReset

FileStep ==
  \/ \E p \in Paths, c \in Contents : EditFile(p, c)
  \/ \E p \in Paths : DeleteFile(p)

\* A run has ended and its process is not yet gone.
Exited == hk.pc = "exited" \/ \E p \in Builders : bld[p].pc = "exited"

\* No run in progress.
Quiet == hk.pc = "idle" /\ \A p \in Builders : bld[p].pc = "idle"

\* Builds and hook runs one after the other (each is one invocation of the
\* single-threaded tool), the editor at work at any moment of a run or
\* between two runs.
Next ==
  \/ Quiet /\ BuildStart(1)
  \/ BuildStep(1)
  \/ Quiet /\ HookStart
  \/ HookStep
  \/ ~Exited /\ FileStep

Spec == Init /\ [][Next]_vars

\* Builds, edits and hook runs one after the other.
NextSeq ==
  \/ Quiet /\ BuildStart(1)
  \/ BuildStep(1)
  \/ Quiet /\ HookStart
  \/ HookStep
  \/ Quiet /\ FileStep

SpecSeq == Init /\ [][NextSeq]_vars

\* Hook runs one after the other over a cache directory that holds no
\* entry, an undecodable file or the entry of an earlier build, the editor at
\* work between two runs.
InitDet ==
  /\ files \in {f \in AllFiles : Readable(f)}
  /\ cacheDir = TRUE
  /\ cacheFile \in {AbsentCache, CorruptCache, Cache(diff(O1, I1), ChecksumsFrom(files))}
  /\ written = files
  /\ sumsOfSeen = TRUE
  /\ last = NoLast
  /\ bld = [p \in Builders |-> BuildIdle]
  /\ hk = HookIdle

NextDet ==
  \/ Quiet /\ HookStart
  \/ HookTempDir
  \/ HookOutside
  \/ HookLoad
  \/ HookSums
  \/ HookFinish
  \/ HookRemember
  \/ Quiet /\ FileStep

SpecDet == InitDet /\ [][NextDet]_vars

\* The files of a project whose cache entry, if any, is of other contents.
FilesNow == [p \in Paths |-> {1}]
FilesPrior == [p \in Paths |-> {2}]

\* The entry an earlier build left in the cache file.
PriorCache == Cache(diff(O2, I2), ChecksumsFrom(FilesPrior))

\* Two builds and a hook run at the same time, one invocation each, over the
\* cache file: nothing orders them but the file system.
InitConc ==
  /\ files = FilesNow
  /\ cacheDir = TRUE
  /\ cacheFile \in {AbsentCache, PriorCache}
  /\ written = IF LoadOk(cacheFile) THEN FilesPrior ELSE NoFiles
  /\ sumsOfSeen = LoadOk(cacheFile)
  /\ last = NoLast
  /\ bld = [p \in Builders |-> BuildIdle]
  /\ hk = HookIdle

NextConc ==
  \/ \E p \in Builders : BuildStart(p)
  \/ \E p \in Builders : BuildVersion(p)
  \/ \E p \in Builders : BuildAllow(p)
  \/ \E p \in Builders : BuildMkdir(p)
  \/ \E p \in Builders : BuildTempDir(p)
  \/ \E p \in Builders : BuildOutside(p)
  \/ \E p \in Builders : BuildInside(p)
  \/ \E p \in Builders : BuildSums(p)
  \/ \E p \in Builders : BuildSave(p)
  \/ HookStart
  \/ HookTempDir
  \/ HookOutside
  \/ HookLoad
  \/ HookSums
  \/ HookFinish

SpecConc == InitConc /\ [][NextConc]_vars

TypeOK ==
  /\ files \in AllFiles
  /\ cacheDir \in BOOLEAN
  /\ cacheFile.state \in {"absent", "corrupt", "valid"}
  /\ hk.exit \in {{}, {0}, {2}}

(* ------------------------------- claims -------------------------------- *)

FailedBuild(p) == bld[p].pc = "exited" /\ bld[p].exit = {2}
DoneBuild(p) == bld[p].pc = "exited" /\ bld[p].exit = {0}
DoneHook == hk.pc = "exited" /\ hk.exit = {0}
FailedHook == hk.pc = "exited" /\ hk.exit = {2}

\* The chunks of standard output with the given title.
ChunksTitled(out, titles) ==
  {i \in DOMAIN out : out[i].kind = "chunk" /\ out[i].title \in titles}

StatusTitles == {display("Okay"), display("Stale"), display("Unknown")}

\* C1: a build run that failed at a step before the save (version check,
\* activation, cache directory, outside or inside capture or decode,
\* checksums) leaves the cache file exactly as it was when the run started,
\* and the cache file changes only in the save step, which a run reaches
\* only with every earlier step done.
C1_FailedBuildKeepsCache ==
  /\ [](\A p \in Builders :
          FailedBuild(p) /\ bld[p].at # "save" => cacheFile = bld[p].start)
  /\ [][cacheFile' # cacheFile =>
          \E p \in Builders : bld[p].pc = "save" /\ bld[p].sums # NoSums]_vars

C1_Witness ==
  /\ FailedBuild(1)
  /\ bld[1].at = "inside"
  /\ bld[1].start.state = "valid"

\* C10: after a successful build the cache file holds the one entry
\* (diff(outside, inside), checksums) of that run, whatever it held before.
C10_SuccessfulBuildOverwrites ==
  \A p \in Builders :
    DoneBuild(p) =>
      cacheFile = [state |-> "valid",
                   diff |-> diff(bld[p].env_outside, bld[p].env_inside),
                   sums |-> bld[p].sums]

C10_Witness ==
  /\ DoneBuild(1)
  /\ bld[1].start.state = "valid"
  /\ bld[1].start # cacheFile

\* C2: a completed hook run emits exactly one status chunk: Unknown iff the
\* cache does not load, Okay iff it loads and the checksums of the watched
\* files equal the cached ones, Stale iff it loads and they differ.
\* (Runs in sequence: the files and the cache file are those the run saw.)
C2_OneStatusChunk ==
  DoneHook =>
    LET loads == LoadOk(cacheFile)
        same == sums_equal(ChecksumsFrom(files), cacheFile.sums)
        has(status) == ChunksTitled(hk.out, {display(status)}) # {}
    IN /\ Cardinality(ChunksTitled(hk.out, StatusTitles)) = 1
       /\ has("Unknown") <=> ~loads
       /\ has("Okay") <=> (loads /\ same)
       /\ has("Stale") <=> (loads /\ ~same)

C2_Witness ==
  /\ DoneHook
  /\ LoadOk(cacheFile)
  /\ ChunksTitled(hk.out, {display("Stale")}) # {}

\* C3: after a successful build, a completed hook run made while every
\* watched file holds the content it had when the cache was written emits
\* Okay, and one made while some watched file's content differs emits Stale
\* and not Okay.
C3_ChecksumsDecideValidity ==
  DoneHook /\ LoadOk(cacheFile) =>
    LET okay == ChunksTitled(hk.out, {display("Okay")}) # {}
        stale == ChunksTitled(hk.out, {display("Stale")}) # {}
    IN IF files = written THEN okay /\ ~stale ELSE stale /\ ~okay

C3_Witness ==
  /\ DoneHook
  /\ LoadOk(cacheFile)
  /\ files # written
  /\ \E p \in Paths : files[p] = written[p]

\* C4: a hook run whose outside capture succeeded ends with exit status 0
\* in one of the states Okay, Stale, Unknown, whatever the cache, the cache
\* directory and the watched files are (the configuration and standard
\* output, which the claim does not vary, taken to work).
C4_OnlyOutsideCaptureFatal ==
  hk.pc = "exited" /\ hk.captured /\ hk.at # "write" /\ hk.err # "Config" =>
    /\ hk.exit = {0}
    /\ hk.status \in {"Okay", "Stale", "Unknown"}

\* The items of standard output that are part of the script.
ScriptItems(out) == {i \in DOMAIN out : out[i].kind # "log"}

\* C5 as stated: a hook run that ends in a fatal error has written no part
\* of the script to standard output.
C5_NothingWrittenOnError == FailedHook => ScriptItems(hk.out) = {}

\* C5, amended: a hook run that ends in a fatal error has never written the
\* closing line of the block; what it has written of the script is the
\* opening line and the items before the failing step, an unclosed block.
C5_FailedHookNeverCloses ==
  FailedHook =>
    /\ \A i \in DOMAIN hk.out : hk.out[i] # CloseLine
    /\ ScriptItems(hk.out) # {} => hk.out[1] = OpenLine

C5_Witness ==
  /\ FailedHook
  /\ hk.at = "sums"
  /\ ChunksTitled(hk.out, {ParentTitle}) # {}

\* C6: for a loaded cache entry a run in state Stale emits what a run in
\* state Okay emits: after the status chunk the cached environment chunk,
\* then one watch directive per watched file of the entry, then the one for
\* the cache file; all of them are determined by the entry alone.
C6_StaleEmitsSameAsOkay ==
  DoneHook /\ hk.status \in {"Okay", "Stale"} =>
    LET n == Len(hk.out)
        entry == hk.cache
        deps == [i \in DOMAIN entry.sums |->
                   [op |-> "watch_file", k |-> escape(entry.sums[i].path), v |-> NoVal]]
    IN /\ n >= 6
       /\ hk.out[n - 4].kind = "chunk"
       /\ hk.out[n - 4].title = display(hk.status)
       /\ hk.out[n - 3] = chunk(CachedTitle, env_diff_dump(entry.diff))
       /\ hk.out[n - 2] = chunk(WatchDepsTitle, deps)
       /\ hk.out[n - 1] = chunk(WatchCacheTitle, <<watch(CacheFilePath)>>)
       /\ Len(deps) = Len(watch_files)

C6_Witness ==
  /\ DoneHook
  /\ hk.status = "Stale"
  /\ hk.cache.diff = diff(O1, I1)

\* The watch directives of standard output, as <<item, line>> positions.
WatchDirectives(out) ==
  UNION {{<<i, j>> : j \in {j \in DOMAIN out[i].body : out[i].body[j].op = "watch_file"}}
         : i \in {i \in DOMAIN out : out[i].kind = "chunk"}}

IsCacheWatch(out, d) == out[d[1]].body[d[2]].k = escape(CacheFilePath)

\* C7: a completed hook run emits exactly one watch directive for the cache
\* file; with no cache file present it emits the Unknown chunk, no cached
\* environment chunk and no other watch directive.
C7_CacheFileAlwaysWatched ==
  DoneHook =>
    LET ws == WatchDirectives(hk.out)
    IN /\ Cardinality({d \in ws : IsCacheWatch(hk.out, d)}) = 1
       /\ hk.cache.state = "absent" =>
            /\ ChunksTitled(hk.out, {display("Unknown")}) # {}
            /\ ChunksTitled(hk.out, {CachedTitle}) = {}
            /\ \A d \in ws : IsCacheWatch(hk.out, d)

C7_Witness ==
  /\ DoneHook
  /\ hk.cache.state = "absent"
  /\ hk.status = "Unknown"

IsExport(line, k, v) ==
  line = [op |-> "export", k |-> escape(k), v |-> escape(v)]

\* C8: when the outside snapshot holds DIRENV_WATCHES, the parent
\* environment chunk exports it with its outside value, and names no other
\* key that starts with DIRENV_.
C8_WatchesKeySurvives ==
  \A i \in ChunksTitled(hk.out, {ParentTitle}) :
    K_DIRENV_WATCHES \in DOMAIN hk.env_outside =>
      /\ \E j \in DOMAIN hk.out[i].body :
           IsExport(hk.out[i].body[j], K_DIRENV_WATCHES,
                    hk.env_outside[K_DIRENV_WATCHES])
      /\ \A j \in DOMAIN hk.out[i].body :
           hk.out[i].body[j].k # escape(K_DIRENV_DIFF)

\* The directive the claim gives a record of a diff.
DirectiveOf(c) ==
  IF c.tag \in {"Added", "Changed"}
  THEN [op |-> "export", k |-> escape(c.k), v |-> escape(c.vb)]
  ELSE [op |-> "unset", k |-> escape(c.k), v |-> NoVal]

\* The body of the cached environment chunk is one directive per record of d.
CachedChunkIs(out, d) ==
  \A i \in ChunksTitled(out, {CachedTitle}) :
    /\ Len(out[i].body) = Len(d)
    /\ \A j \in DOMAIN d : out[i].body[j] = DirectiveOf(d[j])

\* C9 as stated: in state Okay the cached environment chunk holds one
\* directive for every record of the cached diff, in order, none left out.
C9_ExactlyCachedDiff ==
  DoneHook /\ hk.status = "Okay" => CachedChunkIs(hk.out, hk.cache.diff)

IsBookkeeping(c) == c.k[1] \in {"DIRENV_", "SSH_"}

\* C9, amended: in state Okay the cached environment chunk holds one
\* directive for every record of the cached diff whose key starts neither
\* with DIRENV_ nor with SSH_, in the diff's order, and no others.
C9_CachedDiffLessBookkeeping ==
  DoneHook /\ hk.status = "Okay" =>
    /\ Cardinality(ChunksTitled(hk.out, {CachedTitle})) = 1
    /\ CachedChunkIs(hk.out, SelectSeq(hk.cache.diff, LAMBDA c : ~IsBookkeeping(c)))

C9_Witness ==
  /\ DoneHook
  /\ hk.status = "Okay"
  /\ hk.cache.diff = diff(O1, I1)

\* C11: no step of a hook run, of one that completes or of one that fails,
\* creates, modifies or deletes the cache file (or its directory): whatever
\* the file holds, missing, undecodable or an entry, it holds after the step.
C11_HookLeavesCacheFile ==
  [][hk' # hk => cacheFile' = cacheFile /\ cacheDir' = cacheDir]_vars

C11_Witness ==
  /\ hk.pc = "finish"
  /\ hk.status = "Unknown"
  /\ cacheFile = CorruptCache

\* C12: a build run and a hook run end with exit status 0 when they
\* succeeded and with 2 when they ended in a fatal error, whatever the step
\* and the error; there is no other exit status, and none before the end.
C12_ExitZeroOrTwo ==
  LET ends(r) ==
        IF r.pc = "exited"
        THEN /\ r.exit \in {{0}, {2}}
             /\ r.exit = {0} <=> r.err = "none"
        ELSE r.exit = {}
  IN ends(hk) /\ \A p \in Builders : ends(bld[p])

C12_Witness ==
  /\ bld[1].pc = "exited"
  /\ bld[1].err = "DirEnv"
  /\ bld[1].at = "version"
  /\ bld[1].exit = {2}

\* The kinds of error of build::Error and hook::Error.
ErrorKinds ==
  {"Config", "Io", "DirEnv", "EnvOutsideCapture", "EnvOutsideDecode",
   "EnvInsideCapture", "EnvInsideDecode", "Cache"}

\* The error messages among the lines of standard output.
ErrorLines(out) ==
  {i \in DOMAIN out : out[i].kind = "log" /\ out[i].title \in ErrorKinds}

\* C13 as stated: a run that ends in a fatal error has written the error
\* message to standard error and nothing about the error to standard output.
C13_ErrorsOnStderrOnly ==
  LET told(r) == r.pc = "exited" /\ r.exit = {2} =>
                   r.stderr # <<>> /\ ErrorLines(r.out) = {}
  IN told(hk) /\ \A p \in Builders : told(bld[p])

\* A completed hook run with the live and outside snapshots and the loaded
\* cache contents of the remembered one.
SameInputs ==
  /\ last.set
  /\ DoneHook
  /\ hk.env = last.env
  /\ hk.env_outside = last.env_outside
  /\ hk.cache = last.cache

\* C14 as stated: two hook runs with identical live and outside snapshots
\* and identical cache contents produce the same script, item for item.
C14_SameInputsSameScript == SameInputs => hk.out = last.out

\* C14, amended: two completed hook runs with identical live and outside
\* snapshots, identical cache contents and identical contents of the watched
\* files produce the same script, item for item.
C14_SameInputsAndFilesSameScript ==
  SameInputs /\ files = last.files => hk.out = last.out

C14_Witness ==
  /\ SameInputs
  /\ files = last.files
  /\ hk.status = "Okay"
  /\ last.env = L1

\* C15: the temporary directory is gone on every way out of a build run and
\* of a hook run, the successful one and every failing one: a run that has
\* ended holds none, and a build holds none once both captures are done.
C15_ScratchRemoved ==
  /\ hk.pc \in {"idle", "exited"} => ~hk.scratch
  /\ \A p \in Builders :
       bld[p].pc \in {"idle", "sums", "save", "exited"} => ~bld[p].scratch

C15_Witness ==
  /\ FailedBuild(1)
  /\ bld[1].at = "inside"
  /\ bld[1].err = "EnvInsideDecode"
  /\ ~bld[1].scratch

IsPrefix(s, t) == Len(s) <= Len(t) /\ s = SubSeq(t, 1, Len(s))

\* The lines of a build that ran through, in the order of its steps.
StepLog ==
  <<InfoAllow, InfoMkdir, InfoOutside, DebugCmd, InfoInside, DebugCmd, InfoDiff,
    InfoSums, InfoSave>>

\* How many of them are there when the step `at` fails.
LoggedAt(at) ==
  CASE at \in {"init", "config", "version"} -> 0
    [] at = "allow" -> 1
    [] at \in {"mkdir", "tempdir"} -> 2
    [] at = "outside" -> 4
    [] at = "inside" -> 6
    [] at = "sums" -> 8
    [] OTHER -> 9

\* C17: a build is a pipeline of steps in one fixed order (version check,
\* activation, cache directory, outside capture, inside capture, diff,
\* checksums, save); no step runs twice, the first failure is the end of the
\* run and nothing of a later step happens after it. Activation is reached
\* only with a direnv at or above the minimum version, and the inside capture
\* only with a decoded outside environment.
C17_LinearFailStop ==
  \A p \in Builders :
    LET b == bld[p]
        steps == SelectSeq(b.out, LAMBDA l : l.title \notin ErrorKinds)
        past(pcs) == b.pc \in pcs \/ DoneBuild(p)
    IN /\ IsPrefix(steps, StepLog)
       /\ ErrorLines(b.out) # {} => FailedBuild(p) /\ ErrorLines(b.out) = {Len(b.out)}
       /\ FailedBuild(p) => steps = SubSeq(StepLog, 1, LoggedAt(b.at))
       /\ DoneBuild(p) => steps = StepLog
       /\ past({"allow", "mkdir", "tempdir", "outside", "inside", "sums", "save"}) =>
            /\ b.version \in Versions
            /\ ~VersionLess(b.version, version_min)
       /\ past({"inside", "sums", "save"}) => b.env_outside \in OutsideSnaps
       /\ past({"sums", "save"}) =>
            /\ b.env_inside \in InsideSnaps
            /\ b.diff = diff(b.env_outside, b.env_inside)
       /\ past({"save"}) => b.sums # NoSums

C17_Witness ==
  /\ FailedBuild(1)
  /\ bld[1].out = <<InfoAllow, InfoMkdir, InfoOutside, DebugCmd, LogLine("EnvOutsideCapture")>>

\* C18: the script of a hook run is one block: the opening line is the first
\* thing written, the closing line is the last thing a completed run writes
\* and comes after every chunk; a run that has not completed, one that failed
\* among them, has not written the closing line.
C18_OneBlock ==
  LET out == hk.out
      opens == {i \in DOMAIN out : out[i] = OpenLine}
      closes == {i \in DOMAIN out : out[i] = CloseLine}
      chunks == {i \in DOMAIN out : out[i].kind = "chunk"}
  IN /\ ScriptItems(out) # {} => opens = {1}
     /\ DoneHook => /\ closes = {Len(out)}
                    /\ chunks # {}
                    /\ \A i \in chunks : 1 < i /\ i < Len(out)
     /\ ~DoneHook => closes = {}

C18_Witness ==
  /\ DoneHook
  /\ hk.status = "Stale"
  /\ hk.out[1] = OpenLine
  /\ hk.out[Len(hk.out)] = CloseLine

\* C19 as stated: when a hook run classifies the environment as Okay, the
\* cached diff was built from the watched files as they are now: the entry's
\* checksums, equal to the current ones, are of the contents the inside
\* capture of its build saw.
C19_OkayMeansBuiltFromCurrent ==
  hk.pc = "finish" /\ hk.status = "Okay" => sumsOfSeen

\* The complete entry of a build that was saved.
SavedEntry(p) ==
  Cache(diff(bld[p].env_outside, bld[p].env_inside), bld[p].sums)

\* C16: with a hook run and two builds at the same time, a load of the cache
\* file never returns an entry made of parts of two: it fails, or it returns
\* the entry that was there before the saves, or the complete entry (diff
\* and checksums of the same run) of one save.
C16_LoadNeverMixed ==
  hk.pc \in {"sums", "finish", "exited"} =>
    \/ ~LoadOk(hk.cache)
    \/ hk.cache = PriorCache
    \/ \E p \in Builders : DoneBuild(p) /\ hk.cache = SavedEntry(p)

C16_Witness ==
  /\ hk.pc = "finish"
  /\ DoneBuild(1)
  /\ DoneBuild(2)
  /\ hk.cache = SavedEntry(1)
  /\ cacheFile = SavedEntry(2)
  /\ SavedEntry(1) # SavedEntry(2)

\* C20: a hook run reads the cache file at most once, in its load step; the
\* checksums it compares, the cached diff it applies and the files it watches
\* are those of the entry it loaded, also when a build at the same time puts
\* another entry in the cache file before the run is over.
C20_CacheReadOnce ==
  /\ [][hk'.cache # hk.cache => hk.pc = "load" \/ hk'.pc \in {"idle", "exited"}]_vars
  /\ [](DoneHook /\ LoadOk(hk.cache) =>
          LET deps == ChunksTitled(hk.out, {WatchDepsTitle})
          IN /\ hk.status = Classify(ChecksumsFrom(files), hk.cache)
             /\ CachedChunkIs(hk.out,
                              SelectSeq(hk.cache.diff, LAMBDA c : ~IsBookkeeping(c)))
             /\ Cardinality(ChunksTitled(hk.out, {CachedTitle})) = 1
             /\ Cardinality(deps) = 1
             /\ \A i \in deps :
                  hk.out[i].body = [j \in DOMAIN hk.cache.sums |->
                                      watch(hk.cache.sums[j].path)])

C20_Witness ==
  /\ DoneHook
  /\ LoadOk(hk.cache)
  /\ LoadOk(cacheFile)
  /\ cacheFile.diff # hk.cache.diff

====
